---- MODULE Spec2Model ----
(***************************************************************************)
(* FeReader (src/main.py): the reader state of FeReaderWindow, the text    *)
(* view and status bar it draws into, and one action per toolbar handler.  *)
(*                                                                         *)
(* Strings that the code takes apart (paths) are sequences of one-letter   *)
(* strings.  A content unit is a record: body is the text, kind names the  *)
(* routine that produced it, src and n say which item of which file it was *)
(* extracted from (constant strings of the code have src = <<>>, n = 0).   *)
(***************************************************************************)
EXTENDS Integers, Sequences, FiniteSets, TLC

VARIABLES
    current_book_type,   \* None, "pdf" or "epub"
    current_book_path,   \* NoPath or the path of the last successful open
    current_book_title,  \* Untitled or the base name of that path
    pages,               \* sequence of content units
    current_index,       \* 0-based cursor into pages
    current_font_size,   \* point size asked for
    text_view,           \* what the QTextBrowser shows: mode, content, pointSize
    status_message,      \* what the status bar shows
    crashed,             \* an exception left a handler and ended the process
    last                 \* the handler that ran last, its inputs and outcome

reader == <<current_book_type, current_book_path, current_book_title,
            pages, current_index, current_font_size>>
document == <<current_book_type, current_book_path, current_book_title, pages>>
widgets == <<text_view, status_message>>
vars == <<current_book_type, current_book_path, current_book_title,
          pages, current_index, current_font_size,
          text_view, status_message, crashed, last>>

(* ------------------------------ bounds -------------------------------- *)

\* largest number of pages / document items a file holds, in Spec
MaxUnits == 2
\* how far from the initial size Spec lets the font size go
MaxZoom == 1
\* largest number of pages / document items a file holds, in SpecZoom
MaxUnitsZoom == 1

(* ----------------------------- constants ------------------------------ *)

InitialFontSize == 12
MaxFontSize == 40
MinFontSize == 8

None == "None"
\* current_book_path before any load: None, as a sequence that is no path
NoPath == <<None>>
Untitled == <<"U", "n", "t", "i", "t", "l", "e", "d">>

\* paths the file dialog can return (its "All Files" filter admits any name);
\* the empty path is a cancelled dialog
PathB == <<"/", "b", ".", "P", "D", "F">>
PathC == <<"/", "d", "/", "c", ".", "e", "p", "u", "b">>
PathN == <<"/", "n", ".", "t", "x", "t">>
PathH == <<"/", ".", "p", "d", "f">>
PathD == <<"/", "x", ".", "p", "d", "f", "/", "f">>
Cancelled == <<>>
Paths == {PathB, PathC, PathN, PathH, PathD}

\* what page.extract_text() does on one page: text, nothing printable
\* (None, "" or white space), or an exception
PdfPageOutcomes == {"text", "blank", "raise"}

SeqsUpTo(S, n) == UNION {[1..k -> S] : k \in 0..n}
PdfContents(maxUnits) == SeqsUpTo(PdfPageOutcomes, maxUnits)
EpubContents(maxUnits) == SeqsUpTo({"document"}, maxUnits)

(* ------------------------- units and widgets -------------------------- *)

EmptyPage == [kind |-> "pdf", src |-> <<>>, n |-> 0, body |-> "[Empty page]"]
NoReadableContent ==
    [kind |-> "epub", src |-> <<>>, n |-> 0,
     body |-> "<h3>No readable content found.</h3>"]
NoDocumentLoaded ==
    [kind |-> "ui", src |-> <<>>, n |-> 0, body |-> "No document loaded."]
NoDocumentStatus == [title |-> <<>>, page |-> 0, total |-> 0]

(* --------------------------- os.path, str ----------------------------- *)

Upper == <<"P", "D", "F", "E", "U", "B">>
LowerOf == <<"p", "d", "f", "e", "u", "b">>

lowerChar(c) ==
    IF \E i \in 1..Len(Upper) : Upper[i] = c
    THEN LowerOf[CHOOSE i \in 1..Len(Upper) : Upper[i] = c]
    ELSE c

lower(s) == [i \in 1..Len(s) |-> lowerChar(s[i])]

\* str.rfind: the last position of c in s, 0 when absent
rfind(s, c) ==
    IF \E i \in 1..Len(s) : s[i] = c
    THEN CHOOSE i \in 1..Len(s) : s[i] = c /\ \A j \in (i+1)..Len(s) : s[j] # c
    ELSE 0

\* splitext that splits at the last dot of the last component, leading or not
splitext_any_dot(p) ==
    LET sepIndex == rfind(p, "/")
        dotIndex == rfind(p, ".")
    IN  IF dotIndex > sepIndex
        THEN <<SubSeq(p, 1, dotIndex - 1), SubSeq(p, dotIndex, Len(p))>>
        ELSE <<p, <<>>>>

\* os.path.splitext: the extension starts at the last dot of the last
\* component, unless only dots precede it in that component
splitext(p) ==
    LET sepIndex == rfind(p, "/")
        dotIndex == rfind(p, ".")
    IN  IF /\ dotIndex > sepIndex
           /\ \E k \in (sepIndex+1)..(dotIndex-1) : p[k] # "."
        THEN <<SubSeq(p, 1, dotIndex - 1), SubSeq(p, dotIndex, Len(p))>>
        ELSE <<p, <<>>>>

basename(p) == SubSeq(p, rfind(p, "/") + 1, Len(p))

ExtPdf == <<".", "p", "d", "f">>
ExtEpub == <<".", "e", "p", "u", "b">>

(* ----------------------------- extractors ----------------------------- *)

\* load_pdf, loop body: text = page.extract_text() or "" (an exception gives
\* ""), and the unit is the text, or "[Empty page]" when it strips to nothing
PdfUnit(path, i, outcome) ==
    LET text == IF outcome = "text" THEN "text" ELSE ""
    IN  IF text # ""
        THEN [kind |-> "pdf", src |-> path, n |-> i, body |-> text]
        ELSE EmptyPage

\* load_epub, loop body: the prettified HTML of one document item
EpubUnit(path, i) == [kind |-> "epub", src |-> path, n |-> i, body |-> "html"]

RECURSIVE PdfLoop(_, _, _, _)
PdfLoop(acc, path, items, upto) ==
    IF upto = 0 THEN acc
    ELSE Append(PdfLoop(acc, path, items, upto - 1),
                PdfUnit(path, upto, items[upto]))

RECURSIVE EpubLoop(_, _, _)
EpubLoop(acc, path, upto) ==
    IF upto = 0 THEN acc
    ELSE Append(EpubLoop(acc, path, upto - 1), EpubUnit(path, upto))

\* load_pdf without its "self.pages = []"
load_pdf_keeps(old_pages, path, items, raises) ==
    [current_book_type |-> "pdf",
     pages |-> PdfLoop(old_pages, path, items, Len(items)),
     raised |-> raises]

\* load_pdf: the fields it has assigned when it returns or raises.
\* items are the pages it gets to read; raises: PdfReader or the iteration
\* over reader.pages then raises, instead of coming to the end of the file.
load_pdf(old_pages, path, items, raises) ==
    [current_book_type |-> "pdf",
     pages |-> PdfLoop(<<>>, path, items, Len(items)),
     raised |-> raises]

\* load_epub with the first line of load_pdf
load_epub_as_pdf(old_pages, path, items, raises) ==
    LET read == EpubLoop(<<>>, path, Len(items))
    IN  [current_book_type |-> "pdf",
         pages |-> IF ~raises /\ read = <<>>
                   THEN <<NoReadableContent>> ELSE read,
         raised |-> raises]

\* load_epub: likewise; read_epub, get_content, decode or BeautifulSoup
\* raises after the items given.  The placeholder is added after the loop.
load_epub(old_pages, path, items, raises) ==
    LET read == EpubLoop(<<>>, path, Len(items))
    IN  [current_book_type |-> "epub",
         pages |-> IF ~raises /\ read = <<>>
                   THEN <<NoReadableContent>> ELSE read,
         raised |-> raises]

(* ------------------------------ drawing ------------------------------- *)

statusbar_info(pgs, idx, title) ==
    IF pgs # <<>>
    THEN [title |-> title, page |-> idx + 1, total |-> Len(pgs)]
    ELSE NoDocumentStatus

\* pages[current_index] raises IndexError
IndexError(pgs, idx) == pgs # <<>> /\ ~(idx + 1 \in 1..Len(pgs))

view_content(pgs, idx, type) ==
    IF pgs = <<>>
    THEN [mode |-> "plain", content |-> NoDocumentLoaded]
    ELSE [mode |-> IF type = "epub" THEN "html" ELSE "plain",
          content |-> pgs[idx + 1]]

\* _update_view on the reader state given.  When the index is out of range
\* the handler ends there with an IndexError: nothing is drawn, and the
\* exception leaves the slot, on which PyQt5 (5.5 and later, no exception
\* hook being installed) ends the process.
update_view(pgs, idx, type, title, size) ==
    IF IndexError(pgs, idx)
    THEN /\ UNCHANGED widgets
         /\ crashed' = TRUE
    ELSE /\ text_view' = [mode |-> view_content(pgs, idx, type).mode,
                          content |-> view_content(pgs, idx, type).content,
                          pointSize |-> size]
         /\ status_message' = statusbar_info(pgs, idx, title)
         /\ crashed' = FALSE

Done(pgs, idx) == IF IndexError(pgs, idx) THEN "raised" ELSE "done"

Op(name, outcome) ==
    [op |-> name, outcome |-> outcome, message |-> "none",
     path |-> <<>>, items |-> <<>>, value |-> 0]

(* ------------------------------- Init --------------------------------- *)

Init ==
    /\ current_book_type = None
    /\ current_book_path = NoPath
    /\ current_book_title = Untitled
    /\ pages = <<>>
    /\ current_index = 0
    /\ current_font_size = InitialFontSize
    /\ text_view = [mode |-> "plain", content |-> NoDocumentLoaded,
                    pointSize |-> InitialFontSize]
    /\ status_message = NoDocumentStatus
    /\ crashed = FALSE
    /\ last = Op("__init__", "done")

(* ----------------------------- open_file ------------------------------ *)

\* the tail of open_file, after the extractor returned or raised
open_finish(path, items, r) ==
    /\ current_book_type' = r.current_book_type
    /\ pages' = r.pages
    /\ UNCHANGED current_font_size
    /\ IF r.raised
       THEN /\ UNCHANGED <<current_book_path, current_book_title,
                           current_index, widgets, crashed>>
            /\ last' = [Op("open_file", "error") EXCEPT
                          !.message = "Error", !.path = path,
                          !.items = items]
       ELSE /\ current_book_path' = path
            /\ current_book_title' = basename(path)
            /\ current_index' = 0
            /\ update_view(r.pages, 0, r.current_book_type,
                           basename(path), current_font_size)
            /\ last' = [Op("open_file", "done") EXCEPT
                          !.path = path, !.items = items]

open_cancelled ==
    /\ ~crashed
    /\ UNCHANGED <<reader, widgets, crashed>>
    /\ last' = Op("open_file", "cancelled")

open_unsupported ==
    /\ ~crashed
    /\ \E path \in Paths :
         /\ lower(splitext(path)[2]) \notin {ExtPdf, ExtEpub}
         /\ UNCHANGED <<reader, widgets, crashed>>
         /\ last' = [Op("open_file", "unsupported") EXCEPT
                       !.message = "Unsupported file", !.path = path]

open_pdf(maxUnits) ==
    /\ ~crashed
    /\ \E path \in Paths :
         /\ lower(splitext(path)[2]) = ExtPdf
         /\ \E items \in PdfContents(maxUnits) :
              \E raises \in BOOLEAN :
                 open_finish(path, items,
                             load_pdf(pages, path, items, raises))

open_epub(maxUnits) ==
    /\ ~crashed
    /\ \E path \in Paths :
         /\ lower(splitext(path)[2]) # ExtPdf
         /\ lower(splitext(path)[2]) = ExtEpub
         /\ \E items \in EpubContents(maxUnits) :
              \E raises \in BOOLEAN :
                 open_finish(path, items,
                             load_epub(pages, path, items, raises))

(* ----------------------------- navigation ----------------------------- *)

go_prev ==
    /\ ~crashed
    /\ UNCHANGED <<document, current_font_size>>
    /\ IF pages = <<>>
       THEN /\ UNCHANGED <<current_index, widgets, crashed>>
            /\ last' = Op("go_prev", "noop")
       ELSE IF current_index > 0
       THEN /\ current_index' = current_index - 1
            /\ update_view(pages, current_index - 1, current_book_type,
                           current_book_title, current_font_size)
            /\ last' = Op("go_prev", Done(pages, current_index - 1))
       ELSE /\ UNCHANGED <<current_index, widgets, crashed>>
            /\ last' = Op("go_prev", "done")

\* go_next comparing with len(pages) instead of len(pages) - 1
go_next_off ==
    /\ ~crashed
    /\ UNCHANGED <<document, current_font_size>>
    /\ IF pages = <<>>
       THEN /\ UNCHANGED <<current_index, widgets, crashed>>
            /\ last' = Op("go_next", "noop")
       ELSE IF current_index < Len(pages)
       THEN /\ current_index' = current_index + 1
            /\ update_view(pages, current_index + 1, current_book_type,
                           current_book_title, current_font_size)
            /\ last' = Op("go_next", Done(pages, current_index + 1))
       ELSE /\ UNCHANGED <<current_index, widgets, crashed>>
            /\ last' = Op("go_next", "done")

go_next ==
    /\ ~crashed
    /\ UNCHANGED <<document, current_font_size>>
    /\ IF pages = <<>>
       THEN /\ UNCHANGED <<current_index, widgets, crashed>>
            /\ last' = Op("go_next", "noop")
       ELSE IF current_index < Len(pages) - 1
       THEN /\ current_index' = current_index + 1
            /\ update_view(pages, current_index + 1, current_book_type,
                           current_book_title, current_font_size)
            /\ last' = Op("go_next", Done(pages, current_index + 1))
       ELSE /\ UNCHANGED <<current_index, widgets, crashed>>
            /\ last' = Op("go_next", "done")

\* QInputDialog.getInt returns a value in min..max and whether it was accepted
go_to_page_dialog ==
    /\ ~crashed
    /\ UNCHANGED <<document, current_font_size>>
    /\ IF pages = <<>>
       THEN /\ UNCHANGED <<current_index, widgets, crashed>>
            /\ last' = Op("go_to_page_dialog", "noop")
       ELSE \E value \in 1..Len(pages), ok \in BOOLEAN :
              IF ok
              THEN /\ current_index' = value - 1
                   /\ update_view(pages, value - 1, current_book_type,
                                  current_book_title, current_font_size)
                   /\ last' = [Op("go_to_page_dialog", "done") EXCEPT
                                 !.value = value]
              ELSE /\ UNCHANGED <<current_index, widgets, crashed>>
                   /\ last' = [Op("go_to_page_dialog", "cancelled") EXCEPT
                                 !.value = value]

(* -------------------------------- zoom -------------------------------- *)

\* zoom_in clamping one too late
zoom_in_size_off(size) ==
    IF size + 1 > MaxFontSize + 1 THEN MaxFontSize + 1 ELSE size + 1

zoom_in_size(size) == IF size + 1 > MaxFontSize THEN MaxFontSize ELSE size + 1

zoom_out_size(size) == IF size - 1 < MinFontSize THEN MinFontSize ELSE size - 1

\* zoom_in that also goes back to the first page
zoom_in_rewinds ==
    /\ ~crashed
    /\ UNCHANGED document
    /\ current_index' = 0
    /\ current_font_size' = zoom_in_size(current_font_size)
    /\ update_view(pages, 0, current_book_type,
                   current_book_title, zoom_in_size(current_font_size))
    /\ last' = Op("zoom_in", "done")

zoom_in ==
    /\ ~crashed
    /\ UNCHANGED <<document, current_index>>
    /\ current_font_size' = zoom_in_size(current_font_size)
    /\ update_view(pages, current_index, current_book_type,
                   current_book_title, zoom_in_size(current_font_size))
    /\ last' = Op("zoom_in", Done(pages, current_index))

zoom_out ==
    /\ ~crashed
    /\ UNCHANGED <<document, current_index>>
    /\ current_font_size' = zoom_out_size(current_font_size)
    /\ update_view(pages, current_index, current_book_type,
                   current_book_title, zoom_out_size(current_font_size))
    /\ last' = Op("zoom_out", Done(pages, current_index))

show_about ==
    /\ ~crashed
    /\ UNCHANGED <<reader, widgets, crashed>>
    /\ last' = [Op("show_about", "done") EXCEPT !.message = "About FeReader"]

(* ------------------------------- Spec --------------------------------- *)

\* zooming that stays within MaxZoom steps of the initial size
zoom_in_near ==
    /\ current_font_size < InitialFontSize + MaxZoom
    /\ zoom_in

zoom_out_near ==
    /\ current_font_size > InitialFontSize - MaxZoom
    /\ zoom_out

\* every handler, on files of up to MaxUnits units, the font size near its
\* initial value
Next ==
    \/ open_cancelled
    \/ open_unsupported
    \/ open_pdf(MaxUnits)
    \/ open_epub(MaxUnits)
    \/ go_prev
    \/ go_next
    \/ go_to_page_dialog
    \/ zoom_in_near
    \/ zoom_out_near
    \/ show_about

Spec == Init /\ [][Next]_vars

\* every handler, the whole range of font sizes, on files of up to
\* MaxUnitsZoom units
NextZoom ==
    \/ open_cancelled
    \/ open_unsupported
    \/ open_pdf(MaxUnitsZoom)
    \/ open_epub(MaxUnitsZoom)
    \/ go_prev
    \/ go_next
    \/ go_to_page_dialog
    \/ zoom_in
    \/ zoom_out
    \/ show_about

SpecZoom == Init /\ [][NextZoom]_vars

(* ------------------------------ claims -------------------------------- *)

InRange == current_index + 1 \in 1..Len(pages)
Opened(outcome) == last.op = "open_file" /\ last.outcome = outcome
NavOps == {"go_prev", "go_next", "go_to_page_dialog"}
Max(a, b) == IF a > b THEN a ELSE b
Min(a, b) == IF a < b THEN a ELSE b

\* what the paths of Paths are expected to be taken for, written out by hand
PdfPaths == {PathB}
EpubPaths == {PathC}
UnsupportedPaths == {PathN, PathH, PathD}
BaseNameOf(path) ==
    IF path = PathB THEN <<"b", ".", "P", "D", "F">>
    ELSE IF path = PathC THEN <<"c", ".", "e", "p", "u", "b">>
    ELSE <<>>

\* the units a file holds, in the order of the file
UnitsOf(path, items) ==
    IF path \in PdfPaths
    THEN [i \in 1..Len(items) |->
            IF items[i] = "text"
            THEN [kind |-> "pdf", src |-> path, n |-> i, body |-> "text"]
            ELSE EmptyPage]
    ELSE IF items = <<>> THEN <<NoReadableContent>>
    ELSE [i \in 1..Len(items) |->
            [kind |-> "epub", src |-> path, n |-> i, body |-> "html"]]

\* C1: when the extractor raises, open_file leaves pages, current_index,
\* current_book_type, current_book_path and current_book_title as they were.
C1_FailedLoadLeavesState ==
    [][(last'.op = "open_file" /\ last'.outcome = "error")
         => UNCHANGED <<pages, current_index, current_book_type,
                        current_book_path, current_book_title>>]_vars

\* C2: whenever pages is non-empty, 0 <= current_index <= len(pages) - 1.
C2_CursorInRange ==
    pages # <<>> => (0 <= current_index /\ current_index <= Len(pages) - 1)

\* C3: after every successful load, of a PDF or of an EPUB, pages is
\* non-empty.
C3_LoadedPagesNonEmpty == Opened("done") => pages # <<>>

\* C4: a successful open_file leaves exactly the units of the new file in
\* pages, in extraction order, the cursor at 0, the type of the file's
\* extension, the chosen path, its base name as title, and the view redrawn.
C4_OpenReplacesDocument ==
    Opened("done") =>
        /\ pages = UnitsOf(last.path, last.items)
        /\ current_index = 0
        /\ current_book_type = IF last.path \in PdfPaths THEN "pdf" ELSE "epub"
        /\ last.path \in PdfPaths \cup EpubPaths
        /\ current_book_path = last.path
        /\ current_book_title = BaseNameOf(last.path)
        /\ ~crashed
        /\ text_view.pointSize = current_font_size
        /\ IF pages = <<>>
           THEN /\ text_view.content = NoDocumentLoaded
                /\ status_message = NoDocumentStatus
           ELSE /\ text_view.content = pages[1]
                /\ status_message = [title |-> BaseNameOf(last.path),
                                      page |-> 1, total |-> Len(pages)]

C4_Witness ==
    /\ Opened("done")
    /\ last.path = PathB
    /\ Len(pages) = 2
    /\ pages[1] = EmptyPage
    /\ pages[2].body = "text"

\* C5: open_file on a path that is neither .pdf nor .epub shows the
\* "Unsupported file" warning and changes nothing of the reader state;
\* a cancelled dialog changes nothing either and shows no message.
C5_UnsupportedOrCancelled ==
    [][(last'.op = "open_file" /\ last'.path \in UnsupportedPaths \cup {Cancelled})
         => /\ UNCHANGED <<pages, current_index, current_book_type,
                           current_book_path, current_book_title,
                           current_font_size>>
            /\ last'.path \in UnsupportedPaths
                  => (last'.outcome = "unsupported"
                      /\ last'.message = "Unsupported file")
            /\ last'.path = Cancelled
                  => (last'.outcome = "cancelled" /\ last'.message = "none")]_vars

C5_Witness ==
    /\ Opened("unsupported")
    /\ last.path = PathH
    /\ last.message = "Unsupported file"
    /\ current_book_path = PathC
    /\ Len(pages) = 2
    /\ current_index = 1

\* C6: the font size starts at 12 and stays within 8..40; zoom_in adds 1
\* below 40 and keeps 40, zoom_out takes 1 above 8 and keeps 8.
C6_FontSizeClamped ==
    /\ current_font_size = 12
    /\ [][/\ 8 <= current_font_size' /\ current_font_size' <= 40
          /\ last'.op = "zoom_in"
               => current_font_size' =
                    IF current_font_size < 40 THEN current_font_size + 1 ELSE 40
          /\ last'.op = "zoom_out"
               => current_font_size' =
                    IF current_font_size > 8 THEN current_font_size - 1 ELSE 8]_vars

C6_Witness ==
    /\ last.op = "zoom_in"
    /\ current_font_size = 40
    /\ text_view.pointSize = 40

\* C7: with pages non-empty and the cursor c in range, go_prev sets it to
\* max(0, c-1), go_next to min(len(pages)-1, c+1), an accepted go-to dialog
\* with value v in 1..len(pages) to v-1, a cancelled one leaves it; with
\* pages empty the three commands do nothing.
C7_ClampedNavigation ==
    [][/\ (pages # <<>> /\ InRange) =>
            /\ last'.op = "go_prev"
                  => current_index' = Max(0, current_index - 1)
            /\ last'.op = "go_next"
                  => current_index' = Min(Len(pages) - 1, current_index + 1)
            /\ (last'.op = "go_to_page_dialog" /\ last'.outcome = "done")
                  => /\ last'.value \in 1..Len(pages)
                     /\ current_index' = last'.value - 1
            /\ (last'.op = "go_to_page_dialog" /\ last'.outcome = "cancelled")
                  => current_index' = current_index
       /\ (pages = <<>> /\ last'.op \in NavOps)
            => /\ last'.outcome = "noop"
               /\ UNCHANGED <<reader, widgets, crashed>>]_vars

C7_Witness ==
    /\ last.op = "go_next"
    /\ last.outcome = "done"
    /\ Len(pages) = 2
    /\ current_index = 1
    /\ text_view.content = pages[2]

\* C8: zoom_in, zoom_out and show_about leave the document and the cursor
\* alone; go_prev, go_next and go_to_page_dialog leave the document and the
\* font size alone; open_file leaves the font size alone.
C8_Frames ==
    [][/\ last'.op \in {"zoom_in", "zoom_out", "show_about"}
            => UNCHANGED <<pages, current_index, current_book_type,
                           current_book_path, current_book_title>>
       /\ last'.op \in NavOps
            => UNCHANGED <<pages, current_book_type, current_book_path,
                           current_book_title, current_font_size>>
       /\ last'.op = "open_file" => UNCHANGED current_font_size]_vars

C8_Witness ==
    /\ last.op = "zoom_in"
    /\ last.outcome = "done"
    /\ current_font_size = InitialFontSize + 1
    /\ Len(pages) = 2
    /\ current_index = 1

\* C9: after every completed operation the text view shows
\* pages[current_index], or "No document loaded." when pages is empty, and
\* the status bar the title with page current_index+1 of len(pages), or
\* "No document loaded".
C9_DisplayReflectsState ==
    ~crashed =>
        IF pages = <<>>
        THEN /\ text_view.content = NoDocumentLoaded
             /\ status_message = NoDocumentStatus
        ELSE /\ InRange
             /\ text_view.content = pages[current_index + 1]
             /\ status_message = [title |-> current_book_title,
                                   page |-> current_index + 1,
                                   total |-> Len(pages)]

\* C10: every unit in pages was produced by the extractor that
\* current_book_type names, pages holds units of one document only, each at
\* its place, and the view shows as HTML exactly the units of the EPUB
\* extractor.
C10_RenderModeMatchesContent ==
    /\ \A i \in 1..Len(pages) :
         /\ pages[i].kind = current_book_type
         /\ pages[i].src # <<>> => pages[i].n = i
         /\ \A j \in 1..Len(pages) :
              (pages[i].src # <<>> /\ pages[j].src # <<>>)
                 => pages[i].src = pages[j].src
    /\ text_view.mode = "html" <=> text_view.content.kind = "epub"
    /\ text_view.mode = "plain" <=> text_view.content.kind \in {"pdf", "ui"}

C10_Witness ==
    /\ Opened("error")
    /\ current_book_type = "epub"
    /\ Len(pages) = 1
    /\ text_view.content.kind = "pdf"
    /\ text_view.mode = "plain"

====
